---------------------------- MODULE Spec2Model ----------------------------
(***************************************************************************)
(* A model of the Scratch MIDI extension, extensions/MasterMath/midi.js:   *)
(* the decoder rawMessageToMidi, the input handler of MidiBackend, the     *)
(* tracker onMIDIMessage / onNote / onCC and the blocks of class MIDI that  *)
(* read the tracked state.                                                  *)
(*                                                                          *)
(* JavaScript values are represented as follows.  A number that is         *)
(* `undefined` is Undefined, a MidiEvent reference that is null or         *)
(* `undefined` is NoEvent, a type name that is `undefined` is the empty    *)
(* string.  Array indexes are 0-based as in the source (IndexOf, Splice1). *)
(***************************************************************************)
EXTENDS Integers, Sequences, FiniteSets, TLC

VARIABLES
    inputs,           \* MidiBackend.inputs: the ports that carry the listeners
    inbox,            \* event.data of the MIDIMessageEvent a port raised last
    emitted,          \* the CustomEvent last dispatched by MidiBackend._emit
    thrown,           \* the error the last run of the input handler raised
    midiInputDevices, \* the roster the 'statechange' listener regenerates
    midiDeviceInfo,   \* the [id, name] pairs it regenerates with the roster
    status,           \* MidiBackend.status
    midiAccess,       \* MidiBackend.midiAccess: the MIDIAccess object in use
    _init,            \* MidiBackend._init: the promise of an attempt
    attempts,         \* the runs of the async body of initialize, in order
    calls,            \* the calls of initialize and the promise each returned
    available,        \* whether navigator.requestMIDIAccess exists
    present,          \* ids of the ports in the system's input map, in order
    lastOfType,       \* last MidiEvent of each type
    lastMidiEvent,    \* last MidiEvent of any type
    notesOn,          \* the array notesOn
    noteVelocities,   \* the array noteVelocities of [note, velocity] pairs
    lastNotePressed,
    lastNoteReleased,
    lastNotes,        \* Map pitch -> MidiEvent
    lastNoteOnOff,
    lastCCs,          \* Map cc -> MidiEvent
    startedHats,      \* the startHats calls of the last handler run
    threadMidi,       \* thread._midi of each thread
    activeNotesRef,   \* the value the last activeNotes() call returned
    atCall,           \* what that value held when it was returned
    returned,         \* the value the last reporter block call returned
    applied           \* the events handed to onMIDIMessage, in arrival order

accessVars == <<status, midiAccess, _init, attempts, calls, available, present>>
backendVars == <<inputs, inbox, emitted, thrown, midiInputDevices,
                 midiDeviceInfo, status, midiAccess, _init, attempts, calls,
                 available, present>>
trackerVars == <<lastOfType, lastMidiEvent, notesOn, noteVelocities,
                 lastNotePressed, lastNoteReleased, lastNotes, lastNoteOnOff,
                 lastCCs>>
threadVars  == <<threadMidi>>
readerVars  == <<activeNotesRef, atCall, returned>>
vars == <<inputs, inbox, emitted, thrown, midiInputDevices, midiDeviceInfo,
          status, midiAccess, _init, attempts, calls, available, present,
          lastOfType, lastMidiEvent, notesOn, noteVelocities,
          lastNotePressed, lastNoteReleased, lastNotes, lastNoteOnOff, lastCCs,
          startedHats, threadMidi, activeNotesRef, atCall, returned, applied>>

---------------------------------------------------------------------------
(* Bounds and input sets *)

\* at most this many decoded events are applied in a behaviour of Spec
MaxEvents == 3
\* at most this many decoded events are applied in a behaviour of SpecRaw
MaxRawEvents == 2

\* the MIDIInput object a MIDIAccess object holds for the port with an id:
\* every MIDIAccess object has port objects of its own
MIDIInput(id, access) == [id |-> id, name |-> "Port " \o id, access |-> access]
\* the ports the MIDIAccess object reports, in the order of its input map
Ports == <<MIDIInput("in0", 1)>>
\* the threads that run hat blocks
Threads == {"t1"}

\* status bytes 0x80 (note off), 0x90 (note on), 0xB0 (controller)
NoteOffStatus == 128
NoteOnStatus == 144
CCStatus == 176

Pitches == {60, 61}
Velocities == {0, 50, 100}
Controllers == {7, 8}

\* complete three-byte messages, as a controller keyboard sends them
NoteMessages ==
    {<<NoteOnStatus, p, v>> : p \in Pitches, v \in Velocities}
    \cup {<<NoteOffStatus, p, 0>> : p \in Pitches}
CCMessages == {<<CCStatus, n, 127>> : n \in Controllers}
CompleteMessages == NoteMessages \cup CCMessages

\* every prefix of a complete message: the same status byte with two, one or
\* no data bytes
Prefixes(S) == UNION {{SubSeq(m, 1, k) : k \in 1..Len(m)} : m \in S}

\* status bytes without an entry in eventMapping: data bytes without a status
\* (0x3C), SysEx start 0xF0, MTC quarter frame 0xF1, tune request 0xF6,
\* SysEx end 0xF7
UnknownStatusBytes == {60, 240, 241, 246, 247}
UnknownMessages ==
    {<<s>> : s \in UnknownStatusBytes} \cup {<<240, 60, 100>>}

\* the complete messages whose prefixes are delivered raw: two presses, a
\* note-on with velocity 0, a note-off and a controller change
RawCompleteMessages ==
    {<<NoteOnStatus, 60, 100>>, <<NoteOnStatus, 61, 100>>,
     <<NoteOnStatus, 60, 0>>, <<NoteOffStatus, 60, 0>>, <<CCStatus, 7, 127>>}

RawMessages == Prefixes(RawCompleteMessages) \cup UnknownMessages

\* every status byte, with data bytes at the ends and in the middle of the
\* 7-bit range
WireStatusBytes == 0..255
WireData == {0, 1, 64, 127}
WireMessages ==
    {<<s>> : s \in WireStatusBytes}
    \cup {<<s, d1>> : s \in WireStatusBytes, d1 \in WireData}
    \cup {<<s, d1, d2>> : s \in WireStatusBytes, d1 \in WireData, d2 \in WireData}

\* at most this many decoded events are applied in a behaviour of SpecQuery
MaxQueryEvents == 3
\* two threads, each running hat blocks and reading event properties
QueryThreads == {"t1", "t2"}
\* status byte 0xA0 (polyphonic aftertouch)
AftertouchStatus == 160
\* a press and a release of pitch 60, aftertouch on that pitch and two
\* controllers
QueryMessages ==
    {<<NoteOnStatus, 60, 100>>, <<NoteOffStatus, 60, 0>>,
     <<AftertouchStatus, 60, 64>>, <<CCStatus, 7, 127>>, <<CCStatus, 8, 127>>}

\* at most this many decoded events are applied in a behaviour of SpecOther
MaxOtherEvents == 3
\* status bytes 0xC0 (program change), 0xD0 (channel pressure), 0xE0 (pitch
\* bend)
ProgramChangeStatus == 192
ChannelPressureStatus == 208
PitchBendStatus == 224
\* a press, a controller and one message of each other channel-voice type
OtherMessages ==
    {<<NoteOnStatus, 60, 100>>, <<CCStatus, 7, 127>>,
     <<AftertouchStatus, 60, 64>>, <<ProgramChangeStatus, 5>>,
     <<ChannelPressureStatus, 64>>, <<PitchBendStatus, 0, 64>>}

\* at most this many decoded events are applied in a behaviour of SpecReport
MaxReportEvents == 2
\* a press and a release of pitch 60 and a controller change
ReportMessages ==
    {<<NoteOnStatus, 60, 100>>, <<NoteOffStatus, 60, 0>>, <<CCStatus, 7, 127>>}

\* at most this many calls of initialize in a behaviour of SpecBackend
MaxCalls == 2
\* at most this many decoded events are applied in a behaviour of SpecBackend
MaxBackendEvents == 2
\* the ids of the ports that connect and disconnect
PortIds == {"in0", "in1"}
\* every device sends the same press, so that two events differ in nothing
\* but their source and their time
BackendMessages == {<<NoteOnStatus, 60, 100>>}

---------------------------------------------------------------------------
(* JavaScript helpers *)

\* `undefined` where a number is expected
Undefined == 0 - 1

Max(a, b) == IF a >= b THEN a ELSE b
Min(a, b) == IF a <= b THEN a ELSE b

\* Array.prototype.indexOf / findIndex: 0-based index of the first element
\* equal to x, -1 when there is none
IndexOf(seq, x) ==
    IF \E i \in 1..Len(seq) : seq[i] = x
    THEN (CHOOSE i \in 1..Len(seq) :
             seq[i] = x /\ \A j \in 1..(i - 1) : seq[j] # x) - 1
    ELSE 0 - 1

\* Array.prototype.splice(start, 1): a negative start counts from the end
Splice1(seq, start) ==
    LET n == Len(seq)
        s == IF start < 0 THEN Max(n + start, 0) ELSE Min(start, n)
    IN  IF s < n
        THEN SubSeq(seq, 1, s) \o SubSeq(seq, s + 2, n)
        ELSE seq

\* Array.prototype.includes
Includes(seq, x) == \E i \in 1..Len(seq) : seq[i] = x

Range(seq) == {seq[i] : i \in 1..Len(seq)}

\* Map.prototype.set
MapSet(map, key, value) ==
    [k \in DOMAIN map \cup {key} |-> IF k = key THEN value ELSE map[k]]

---------------------------------------------------------------------------
(* Decoder *)

EventTypes == {"noteOn", "noteOff", "cc", "aftertouch", "programChange",
               "pitchBend", "channelPressure", "songPosition", "songSelect",
               "clock", "start", "continue", "stop", "activeSensing", "reset"}

NoParam == ""

Descriptor(command, param1, param2, highResParam) ==
    [command |-> command, param1 |-> param1, param2 |-> param2,
     highResParam |-> highResParam]

eventMapping ==
    [t \in EventTypes |->
        CASE t = "noteOn" -> Descriptor(144, "pitch", "velocity", NoParam)
          [] t = "noteOff" -> Descriptor(128, "pitch", "velocity", NoParam)
          [] t = "cc" -> Descriptor(176, "cc", "value", NoParam)
          [] t = "aftertouch" -> Descriptor(160, "pitch", "value", NoParam)
          [] t = "programChange" -> Descriptor(192, "value", NoParam, NoParam)
          [] t = "pitchBend" -> Descriptor(224, NoParam, NoParam, "value")
          [] t = "channelPressure" -> Descriptor(208, "value", NoParam, NoParam)
          [] t = "songPosition" -> Descriptor(242, NoParam, NoParam, "value")
          [] t = "songSelect" -> Descriptor(243, "value", NoParam, NoParam)
          [] t = "clock" -> Descriptor(248, NoParam, NoParam, NoParam)
          [] t = "start" -> Descriptor(250, NoParam, NoParam, NoParam)
          [] t = "continue" -> Descriptor(251, NoParam, NoParam, NoParam)
          [] t = "stop" -> Descriptor(252, NoParam, NoParam, NoParam)
          [] t = "activeSensing" -> Descriptor(254, NoParam, NoParam, NoParam)
          [] t = "reset" -> Descriptor(255, NoParam, NoParam, NoParam)]

\* commandLookup with the table keyed by the high nibble of each command, so
\* that every system status byte finds a system entry
commandLookupByHighNibble(command) ==
    LET HighNibble(c) == c - (c % 16)
    IN  IF \E t \in EventTypes : HighNibble(eventMapping[t].command) = command
        THEN CHOOSE t \in EventTypes :
                 HighNibble(eventMapping[t].command) = command
        ELSE ""

\* commandLookup.get(command): the type name, or "" for `undefined`
commandLookup(command) ==
    IF \E t \in EventTypes : eventMapping[t].command = command
    THEN CHOOSE t \in EventTypes : eventMapping[t].command = command
    ELSE ""

\* a MidiEvent; a field the source leaves unset is Undefined
MidiEvent(type, channel, value1, value2) ==
    [type |-> type, channel |-> channel, value1 |-> value1, value2 |-> value2,
     pitch |-> Undefined, velocity |-> Undefined, cc |-> Undefined,
     value |-> Undefined, time |-> Undefined, device |-> Undefined]

\* null / undefined where a MidiEvent is expected
NoEvent == MidiEvent("", Undefined, Undefined, Undefined)

\* (value2 << 7) + value1; with a byte missing the sum is NaN, which like
\* every number has no property `value`
msbLsbToValue(value1, value2) ==
    IF value1 = Undefined \/ value2 = Undefined
    THEN Undefined
    ELSE (value2 * 128) + value1

\* `const { value } = <number>`: the property `value` of a number
ValueOfNumber(n) == Undefined

\* rawMessageToMidi reporting a note-on with velocity 0 as a note-off
rawMessageToMidiNormalising(data) ==
    LET commandAndChannel == data[1]
        value1 == IF Len(data) >= 2 THEN data[2] ELSE Undefined
        value2 == IF Len(data) >= 3 THEN data[3] ELSE Undefined
        channel == commandAndChannel % 16
        command == commandAndChannel - channel
        looked == commandLookup(command)
        type == IF looked = "noteOn" /\ value2 = 0 THEN "noteOff" ELSE looked
    IN  IF type = ""
        THEN NoEvent
        ELSE
          LET spec == eventMapping[type]
              event == MidiEvent(type, channel, value1, value2)
              e1 == IF spec.param1 # NoParam /\ event.value1 # Undefined
                    THEN [event EXCEPT ![spec.param1] = event.value1]
                    ELSE event
              e2 == IF spec.param2 # NoParam /\ e1.value2 # Undefined
                    THEN [e1 EXCEPT ![spec.param2] = e1.value2]
                    ELSE e1
              e3 == IF spec.highResParam # NoParam
                    THEN [e2 EXCEPT ![spec.highResParam] =
                              ValueOfNumber(msbLsbToValue(value1, value2))]
                    ELSE e2
          IN  e3

rawMessageToMidi(data) ==
    LET commandAndChannel == data[1]
        value1 == IF Len(data) >= 2 THEN data[2] ELSE Undefined
        value2 == IF Len(data) >= 3 THEN data[3] ELSE Undefined
        channel == commandAndChannel % 16
        command == commandAndChannel - channel
        type == commandLookup(command)
    IN  IF type = ""
        THEN NoEvent
        ELSE
          LET spec == eventMapping[type]
              event == MidiEvent(type, channel, value1, value2)
              e1 == IF spec.param1 # NoParam /\ event.value1 # Undefined
                    THEN [event EXCEPT ![spec.param1] = event.value1]
                    ELSE event
              e2 == IF spec.param2 # NoParam /\ e1.value2 # Undefined
                    THEN [e1 EXCEPT ![spec.param2] = e1.value2]
                    ELSE e1
              e3 == IF spec.highResParam # NoParam
                    THEN [e2 EXCEPT ![spec.highResParam] =
                              ValueOfNumber(msbLsbToValue(value1, value2))]
                    ELSE e2
          IN  e3

---------------------------------------------------------------------------
(* Tracker *)

StartHats(opcode, pressedReleased) == <<opcode, pressedReleased>>

\* onNote with the velocity entry looked up by velocity instead of by note
onNoteVelocityIndex(event) ==
    LET type == event.type
        note == event.pitch
        velocity == event.velocity
    IN  /\ lastNotes' = MapSet(lastNotes, note, event)
        /\ lastNoteOnOff' = event
        /\ IF type = "noteOn" /\ velocity > 0
           THEN /\ notesOn' = Append(notesOn, note)
                /\ noteVelocities' = Append(noteVelocities, <<note, velocity>>)
                /\ lastNotePressed' = note
                /\ startedHats' = <<StartHats("midi_whenAnyNote", "pressed"),
                                    StartHats("midi_whenNote", "pressed")>>
                /\ UNCHANGED lastNoteReleased
           ELSE IF type = "noteOff" \/ (type = "noteOn" /\ velocity = 0)
           THEN /\ lastNoteReleased' = note
                /\ notesOn' = Splice1(notesOn, IndexOf(notesOn, note))
                /\ noteVelocities' =
                       Splice1(noteVelocities,
                               IndexOf([i \in 1..Len(noteVelocities) |->
                                           noteVelocities[i][2]], note))
                /\ startedHats' = <<StartHats("midi_whenAnyNote", "released"),
                                    StartHats("midi_whenNote", "released")>>
                /\ UNCHANGED lastNotePressed
           ELSE /\ startedHats' = <<>>
                /\ UNCHANGED <<notesOn, noteVelocities, lastNotePressed,
                               lastNoteReleased>>

\* onNote: the note handler
onNote(event) ==
    LET type == event.type
        note == event.pitch
        velocity == event.velocity
    IN  /\ lastNotes' = MapSet(lastNotes, note, event)
        /\ lastNoteOnOff' = event
        /\ IF type = "noteOn" /\ velocity > 0
           THEN /\ notesOn' = Append(notesOn, note)
                /\ noteVelocities' = Append(noteVelocities, <<note, velocity>>)
                /\ lastNotePressed' = note
                /\ startedHats' = <<StartHats("midi_whenAnyNote", "pressed"),
                                    StartHats("midi_whenNote", "pressed")>>
                /\ UNCHANGED lastNoteReleased
           ELSE IF type = "noteOff" \/ (type = "noteOn" /\ velocity = 0)
           THEN /\ lastNoteReleased' = note
                /\ notesOn' = Splice1(notesOn, IndexOf(notesOn, note))
                /\ noteVelocities' =
                       Splice1(noteVelocities,
                               IndexOf([i \in 1..Len(noteVelocities) |->
                                           noteVelocities[i][1]], note))
                /\ startedHats' = <<StartHats("midi_whenAnyNote", "released"),
                                    StartHats("midi_whenNote", "released")>>
                /\ UNCHANGED lastNotePressed
           ELSE /\ startedHats' = <<>>
                /\ UNCHANGED <<notesOn, noteVelocities, lastNotePressed,
                               lastNoteReleased>>

\* onCC: the controller handler
onCC(event) ==
    /\ lastCCs' = MapSet(lastCCs, event.cc, event)
    /\ startedHats' = <<StartHats("midi_whenAnyCC", ""),
                        StartHats("midi_whenCC", "")>>

\* onMIDIMessage keeping the first event of each type instead of the last
onMIDIMessageFirstOfType(event) ==
    /\ lastMidiEvent' = event
    /\ lastOfType' = IF lastOfType[event.type] = NoEvent
                     THEN [lastOfType EXCEPT ![event.type] = event]
                     ELSE lastOfType
    /\ applied' = Append(applied, event)
    /\ IF event.type \in {"noteOn", "noteOff"}
       THEN onNote(event) /\ UNCHANGED lastCCs
       ELSE IF event.type = "cc"
       THEN /\ onCC(event)
            /\ UNCHANGED <<notesOn, noteVelocities, lastNotePressed,
                           lastNoteReleased, lastNotes, lastNoteOnOff>>
       ELSE /\ startedHats' = <<>>
            /\ UNCHANGED <<notesOn, noteVelocities, lastNotePressed,
                           lastNoteReleased, lastNotes, lastNoteOnOff, lastCCs>>

\* onMIDIMessage handing aftertouch, which has a pitch, to the note handler
onMIDIMessageAftertouchAsNote(event) ==
    /\ lastMidiEvent' = event
    /\ lastOfType' = [lastOfType EXCEPT ![event.type] = event]
    /\ applied' = Append(applied, event)
    /\ IF event.type \in {"noteOn", "noteOff", "aftertouch"}
       THEN onNote(event) /\ UNCHANGED lastCCs
       ELSE IF event.type = "cc"
       THEN /\ onCC(event)
            /\ UNCHANGED <<notesOn, noteVelocities, lastNotePressed,
                           lastNoteReleased, lastNotes, lastNoteOnOff>>
       ELSE /\ startedHats' = <<>>
            /\ UNCHANGED <<notesOn, noteVelocities, lastNotePressed,
                           lastNoteReleased, lastNotes, lastNoteOnOff, lastCCs>>

\* onMIDIMessage: the listener of the backend's 'midi' event
onMIDIMessage(event) ==
    /\ lastMidiEvent' = event
    /\ lastOfType' = [lastOfType EXCEPT ![event.type] = event]
    /\ applied' = Append(applied, event)
    /\ IF event.type \in {"noteOn", "noteOff"}
       THEN onNote(event) /\ UNCHANGED lastCCs
       ELSE IF event.type = "cc"
       THEN /\ onCC(event)
            /\ UNCHANGED <<notesOn, noteVelocities, lastNotePressed,
                           lastNoteReleased, lastNotes, lastNoteOnOff>>
       ELSE /\ startedHats' = <<>>
            /\ UNCHANGED <<notesOn, noteVelocities, lastNotePressed,
                           lastNoteReleased, lastNotes, lastNoteOnOff, lastCCs>>

---------------------------------------------------------------------------
(* Backend *)

\* MidiBackend.midiAccess and MidiBackend._init while undefined; a MIDIAccess
\* object and the promise of an attempt are denoted by the attempt's number
NoAccess == 0
NoPromise == 0

\* no error raised
NoError == ""

CustomEvent(name, midi, data) == [name |-> name, midi |-> midi, data |-> data]

RECURSIVE PushUnknownObject(_, _)
\* the loop of refreshDevices looking for the port object instead of its id
PushUnknownObject(list, ports) ==
    IF ports = <<>>
    THEN list
    ELSE PushUnknownObject(IF Includes(list, Head(ports))
                           THEN list
                           ELSE Append(list, Head(ports)),
                           Tail(ports))

RECURSIVE PushUnknown(_, _)
\* the loop of refreshDevices: push every port whose id is not yet listed
PushUnknown(list, ports) ==
    IF ports = <<>>
    THEN list
    ELSE PushUnknown(IF \E i \in 1..Len(list) : list[i].id = Head(ports).id
                     THEN list
                     ELSE Append(list, Head(ports)),
                     Tail(ports))

\* refreshDevices, with midiAccess.inputs holding ports
refreshDevices(ports) ==
    /\ inputs' = PushUnknown(inputs, ports)
    /\ inputs' # inputs
    /\ UNCHANGED <<inbox, emitted, thrown, midiInputDevices, midiDeviceInfo,
                   accessVars, trackerVars, startedHats, threadVars,
                   readerVars, applied>>

\* _onInputEvent announcing the event without running the 'midi' listener
\* before it returns
onInputEventDeferred(device, data, timeStamp) ==
    LET deviceIndex == IndexOf(inputs, device)
        midiEvent == rawMessageToMidi(data)
    IN  /\ Includes(inputs, device)
        /\ inbox' = data
        /\ thrown' = NoError
        /\ IF midiEvent = NoEvent
           THEN emitted' = CustomEvent("midi:unhandled", NoEvent, data)
           ELSE emitted' = CustomEvent("midi",
                                       [midiEvent EXCEPT !.time = timeStamp,
                                                         !.device = deviceIndex],
                                       <<>>)
        /\ UNCHANGED <<trackerVars, startedHats, applied>>
        /\ UNCHANGED <<inputs, midiInputDevices, midiDeviceInfo, accessVars,
                       threadVars, readerVars>>

\* _onInputEvent: the 'midimessage' listener of an input port
onInputEvent(device, data, timeStamp) ==
    LET deviceIndex == IndexOf(inputs, device)
        midiEvent == rawMessageToMidi(data)
    IN  /\ Includes(inputs, device)
        /\ inbox' = data
        /\ thrown' = NoError
        /\ IF midiEvent = NoEvent
           THEN /\ emitted' = CustomEvent("midi:unhandled", NoEvent, data)
                /\ UNCHANGED <<trackerVars, startedHats, applied>>
           ELSE LET timed == [midiEvent EXCEPT !.time = timeStamp]
                    event == IF deviceIndex # 0 - 1
                             THEN [timed EXCEPT !.device = deviceIndex]
                             ELSE timed
                IN  /\ emitted' = CustomEvent("midi", event, <<>>)
                    /\ onMIDIMessage(event)
        /\ UNCHANGED <<inputs, midiInputDevices, midiDeviceInfo, accessVars,
                       threadVars, readerVars>>

\* the entry of midiInputDevices for a port
DeviceLabel(port) ==
    "[id: \"" \o port.id \o "\" name: \"" \o port.name \o "\"]"

\* the 'statechange' listener: both rosters are made anew from the inputs
onStateChange(list) ==
    /\ midiInputDevices' = [i \in 1..Len(list) |-> DeviceLabel(list[i])]
    /\ midiDeviceInfo' = [i \in 1..Len(list) |-> <<list[i].id, list[i].name>>]

\* _onDeviceStateChange: an unknown port is picked up by refreshDevices, a
\* known one is announced by 'statechange', whose listener regenerates
\* midiInputDevices from the inputs
onDeviceStateChange(port, ports) ==
    IF \A i \in 1..Len(inputs) : inputs[i].id # port.id
    THEN refreshDevices(ports)
    ELSE /\ emitted' = CustomEvent("statechange", NoEvent, <<>>)
         /\ onStateChange(inputs)
         /\ UNCHANGED <<inputs, inbox, thrown, accessVars, trackerVars,
                        startedHats, threadVars, readerVars, applied>>

\* midiAccess.inputs of a MIDIAccess object: its port objects for the ports
\* in the system's input map
AccessInputs(access) ==
    [i \in 1..Len(present) |-> MIDIInput(present[i], access)]

\* the async body of initialize up to its await: the access request is out
\* and the timeout timer runs
Attempt == [request |-> "pending", timer |-> "armed", result |-> "pending"]

\* a call on record: its argument, the promise it returned (NoPromise for
\* one that resolves to false at once) and the status it found
Call(force, promise) ==
    [force |-> force, promise |-> promise, found |-> status]

\* initialize resting on status instead of _init to tell that an attempt is
\* under way
initializeWhilePending(force) ==
    /\ IF ~available
       THEN /\ calls' = Append(calls, Call(force, NoPromise))
            /\ UNCHANGED <<status, _init, attempts>>
       ELSE IF status = "initializing" /\ ~force
       THEN /\ calls' = Append(calls, Call(force, _init))
            /\ UNCHANGED <<status, _init, attempts>>
       ELSE /\ status' = "initializing"
            /\ attempts' = Append(attempts, Attempt)
            /\ _init' = Len(attempts) + 1
            /\ calls' = Append(calls, Call(force, Len(attempts) + 1))
    /\ UNCHANGED <<inputs, inbox, emitted, thrown, midiInputDevices,
                   midiDeviceInfo, midiAccess, available, present, trackerVars,
                   startedHats, threadVars, readerVars, applied>>

\* initialize({ force }): without the API the call resolves to false; with
\* an attempt on record and no force it returns that attempt's promise; else
\* it starts an attempt, which runs to its await within the call
initialize(force) ==
    /\ IF ~available
       THEN /\ calls' = Append(calls, Call(force, NoPromise))
            /\ UNCHANGED <<status, _init, attempts>>
       ELSE IF _init # NoPromise /\ ~force
       THEN /\ calls' = Append(calls, Call(force, _init))
            /\ UNCHANGED <<status, _init, attempts>>
       ELSE /\ status' = "initializing"
            /\ attempts' = Append(attempts, Attempt)
            /\ _init' = Len(attempts) + 1
            /\ calls' = Append(calls, Call(force, Len(attempts) + 1))
    /\ UNCHANGED <<inputs, inbox, emitted, thrown, midiInputDevices,
                   midiDeviceInfo, midiAccess, available, present, trackerVars,
                   startedHats, threadVars, readerVars, applied>>

\* the catch and finally blocks of an attempt: status 'error', the promise
\* resolves to false, 'statechange' is emitted and its listener runs
Fail(k, request, timer) ==
    /\ attempts' = [attempts EXCEPT ![k] = [request |-> request,
                                            timer |-> timer,
                                            result |-> "false"]]
    /\ status' = "error"
    /\ emitted' = CustomEvent("statechange", NoEvent, <<>>)
    /\ onStateChange(inputs)
    /\ UNCHANGED <<inputs, midiAccess>>

\* requestMIDIAccess of attempt k resolves. When it wins the race the
\* attempt goes on after its await: clearTimeout, refreshDevices, status
\* 'connected', the promise resolves to true, 'statechange' is emitted and
\* its listener runs. After the timeout nobody waits for it.
requestGranted(k) ==
    /\ k \in 1..Len(attempts)
    /\ attempts[k].request = "pending"
    /\ IF attempts[k].result = "pending"
       THEN /\ midiAccess' = k
            /\ attempts' = [attempts EXCEPT ![k] = [request |-> "granted",
                                                    timer |-> "cleared",
                                                    result |-> "true"]]
            /\ inputs' = PushUnknown(inputs, AccessInputs(k))
            /\ status' = "connected"
            /\ emitted' = CustomEvent("statechange", NoEvent, <<>>)
            /\ onStateChange(inputs')
       ELSE /\ attempts' = [attempts EXCEPT ![k].request = "granted"]
            /\ UNCHANGED <<inputs, midiAccess, status, emitted,
                           midiInputDevices, midiDeviceInfo>>
    /\ UNCHANGED <<inbox, thrown, _init, calls, available, present,
                   trackerVars, startedHats, threadVars, readerVars, applied>>

\* requestMIDIAccess of attempt k rejects
requestDenied(k) ==
    /\ k \in 1..Len(attempts)
    /\ attempts[k].request = "pending"
    /\ IF attempts[k].result = "pending"
       THEN Fail(k, "denied", attempts[k].timer)
       ELSE /\ attempts' = [attempts EXCEPT ![k].request = "denied"]
            /\ UNCHANGED <<inputs, midiAccess, status, emitted,
                           midiInputDevices, midiDeviceInfo>>
    /\ UNCHANGED <<inbox, thrown, _init, calls, available, present,
                   trackerVars, startedHats, threadVars, readerVars, applied>>

\* the timer of attempt k that never rejects the race
timeoutFiresUnheard(k) ==
    /\ k \in 1..Len(attempts)
    /\ attempts[k].timer = "armed"
    /\ attempts' = [attempts EXCEPT ![k].timer = "fired"]
    /\ UNCHANGED <<inputs, midiAccess, status, emitted, midiInputDevices,
                   midiDeviceInfo>>
    /\ UNCHANGED <<inbox, thrown, _init, calls, available, present,
                   trackerVars, startedHats, threadVars, readerVars, applied>>

\* the timeout timer of attempt k fires and rejects whenTimeout
timeoutFires(k) ==
    /\ k \in 1..Len(attempts)
    /\ attempts[k].timer = "armed"
    /\ IF attempts[k].result = "pending"
       THEN Fail(k, attempts[k].request, "fired")
       ELSE /\ attempts' = [attempts EXCEPT ![k].timer = "fired"]
            /\ UNCHANGED <<inputs, midiAccess, status, emitted,
                           midiInputDevices, midiDeviceInfo>>
    /\ UNCHANGED <<inbox, thrown, _init, calls, available, present,
                   trackerVars, startedHats, threadVars, readerVars, applied>>

\* 'statechange' of a MIDIAccess object that carries the listener
\* refreshDevices, which reads the inputs of the MIDIAccess object in use
onAccessStateChange ==
    /\ \E k \in 1..Len(attempts) : attempts[k].result = "true"
    /\ refreshDevices(AccessInputs(midiAccess))

\* the system gains or loses a port
connect(id) ==
    /\ id \notin Range(present)
    /\ present' = Append(present, id)
    /\ UNCHANGED <<inputs, inbox, emitted, thrown, midiInputDevices,
                   midiDeviceInfo, status, midiAccess, _init, attempts, calls,
                   available, trackerVars, startedHats, threadVars,
                   readerVars, applied>>

disconnect(id) ==
    /\ id \in Range(present)
    /\ present' = SelectSeq(present, LAMBDA p : p # id)
    /\ UNCHANGED <<inputs, inbox, emitted, thrown, midiInputDevices,
                   midiDeviceInfo, status, midiAccess, _init, attempts, calls,
                   available, trackerVars, startedHats, threadVars,
                   readerVars, applied>>

isConnected == status = "connected"

\* the transport's clock: the number of the delivery
Now == Len(applied) + 1

---------------------------------------------------------------------------
(* The variant in part_000 *)

\* onMIDIMessage of part_000, the later of its two declarations: it
\* destructures event.data, a property the parsed MidiEvent it is handed
\* does not have, and that raises a TypeError before any statement runs
onMIDIMessagePart000(event) ==
    IF "data" \notin DOMAIN event
    THEN /\ thrown' = "TypeError"
         /\ UNCHANGED <<trackerVars, startedHats, applied>>
    ELSE
      LET statusByte == event.data[1]
          note == event.data[2]
          velocity == event.data[3]
          command == statusByte - (statusByte % 16)
      IN  /\ thrown' = NoError
          /\ applied' = Append(applied, event)
          /\ UNCHANGED <<lastOfType, lastMidiEvent, lastNotes, lastNoteOnOff,
                         lastCCs>>
          /\ IF command = NoteOnStatus /\ velocity > 0
             THEN /\ notesOn' = Append(notesOn, note)
                  /\ noteVelocities' = Append(noteVelocities, <<note, velocity>>)
                  /\ lastNotePressed' = note
                  /\ startedHats' = <<StartHats("midi_whenAnyNote", "pressed"),
                                      StartHats("midi_whenNote", "pressed")>>
                  /\ UNCHANGED lastNoteReleased
             ELSE IF command = NoteOffStatus
                     \/ (command = NoteOnStatus /\ velocity = 0)
             THEN /\ lastNoteReleased' = note
                  /\ notesOn' = Splice1(notesOn, IndexOf(notesOn, note))
                  /\ noteVelocities' =
                         Splice1(noteVelocities,
                                 IndexOf([i \in 1..Len(noteVelocities) |->
                                             noteVelocities[i][1]], note))
                  /\ startedHats' = <<StartHats("midi_whenAnyNote", "released"),
                                      StartHats("midi_whenNote", "released")>>
                  /\ UNCHANGED lastNotePressed
             ELSE /\ startedHats' = <<>>
                  /\ UNCHANGED <<notesOn, noteVelocities, lastNotePressed,
                                 lastNoteReleased>>

\* _onInputEvent of part_000 with its 'midi' listener
onInputEventPart000(device, data, timeStamp) ==
    LET deviceIndex == IndexOf(inputs, device)
        midiEvent == rawMessageToMidi(data)
    IN  /\ Includes(inputs, device)
        /\ inbox' = data
        /\ IF midiEvent = NoEvent
           THEN /\ emitted' = CustomEvent("midi:unhandled", NoEvent, data)
                /\ thrown' = NoError
                /\ UNCHANGED <<trackerVars, startedHats, applied>>
           ELSE LET timed == [midiEvent EXCEPT !.time = timeStamp]
                    event == IF deviceIndex # 0 - 1
                             THEN [timed EXCEPT !.device = deviceIndex]
                             ELSE timed
                IN  /\ emitted' = CustomEvent("midi", event, <<>>)
                    /\ onMIDIMessagePart000(event)
        /\ UNCHANGED <<inputs, midiInputDevices, midiDeviceInfo, accessVars,
                       threadVars, readerVars>>

---------------------------------------------------------------------------
(* Blocks of class MIDI *)

\* getThreadMidiValue accepting no stored value as an event
getThreadMidiValueNever(util) == NoEvent

\* threadUtils.getThreadMidiValue: thread._midi when it is an event
getThreadMidiValue(util) == threadMidi[util]

\* setThreadMidiValue storing the event on every thread
setThreadMidiValueEveryThread(util, event) ==
    /\ threadMidi' = [t \in DOMAIN threadMidi |-> event]
    /\ UNCHANGED <<backendVars, trackerVars, startedHats, readerVars, applied>>

\* threadUtils.setThreadMidiValue, as the only change of a block call
setThreadMidiValue(util, event) ==
    /\ threadMidi' = [threadMidi EXCEPT ![util] = event]
    /\ UNCHANGED <<backendVars, trackerVars, startedHats, readerVars, applied>>

ExpectedType(pressedReleased) ==
    IF pressedReleased = "pressed" THEN "noteOn" ELSE "noteOff"

\* whenAnyNote looking at the last event of any type
whenAnyNoteResultOfLastEvent(pressedReleased) ==
    LET last == lastMidiEvent
    IN  last # NoEvent /\ last.type = ExpectedType(pressedReleased)

\* what whenAnyNote returns
whenAnyNoteResult(pressedReleased) ==
    LET last == lastNoteOnOff
    IN  last # NoEvent /\ last.type = ExpectedType(pressedReleased)

whenAnyNote(pressedReleased, util) ==
    IF whenAnyNoteResult(pressedReleased)
    THEN setThreadMidiValue(util, lastNoteOnOff)
    ELSE UNCHANGED vars

\* what whenNote returns
whenNoteResult(note, pressedReleased) ==
    LET last == lastNoteOnOff
    IN  /\ last # NoEvent
        /\ last.type = ExpectedType(pressedReleased)
        /\ last.pitch = note

whenNote(note, pressedReleased, util) ==
    IF whenNoteResult(note, pressedReleased)
    THEN setThreadMidiValue(util, lastNoteOnOff)
    ELSE UNCHANGED vars

\* what whenAnyCC returns
whenAnyCCResult == lastOfType["cc"] # NoEvent

whenAnyCC(util) ==
    IF whenAnyCCResult
    THEN setThreadMidiValue(util, lastOfType["cc"])
    ELSE UNCHANGED vars

\* whenCC matching any controller number seen so far
whenCCResultAnySeen(CC) == CC \in DOMAIN lastCCs

\* what whenCC returns
whenCCResult(CC) ==
    LET last == lastOfType["cc"]
    IN  last # NoEvent /\ last.cc = CC

whenCC(CC, util) ==
    IF whenCCResult(CC)
    THEN setThreadMidiValue(util, lastOfType["cc"])
    ELSE UNCHANGED vars

\* what a reporter block returns: a string, a number, a boolean or undefined
StringResult(s) == [kind |-> "string", s |-> s, n |-> 0]
NumberResult(n) == [kind |-> "number", s |-> "", n |-> n]
BooleanResult(b) == [kind |-> "boolean", s |-> "", n |-> IF b THEN 1 ELSE 0]
UndefinedResult == [kind |-> "undefined", s |-> "", n |-> 0]
Empty == StringResult("")
\* a number field of an event, which the source may have left unset
FieldResult(v) == IF v = Undefined THEN UndefinedResult ELSE NumberResult(v)

\* menus.PROPS
Props == {"type", "pitch", "velocity", "cc", "value", "pitchbend",
          "aftertouch", "channel", "device", "time"}

\* the block "[PROP] of last event"
lastEventProp(PROP, util) ==
    LET bound == getThreadMidiValue(util)
        last == IF bound # NoEvent THEN bound ELSE lastMidiEvent
    IN  IF last = NoEvent
        THEN Empty
        ELSE
          CASE PROP = "type" -> StringResult(last.type)
            [] PROP = "pitch" ->
                 IF last.type \notin {"noteOn", "noteOff", "aftertouch"}
                 THEN Empty
                 ELSE FieldResult(last.pitch)
            [] PROP = "velocity" ->
                 IF last.type \notin {"noteOn", "noteOff"}
                 THEN Empty
                 ELSE FieldResult(last.velocity)
            [] PROP = "cc" ->
                 IF last.type # "cc" THEN Empty ELSE FieldResult(last.cc)
            [] PROP = "value" ->
                 IF last.type # "cc" THEN Empty ELSE FieldResult(last.value)
            [] PROP = "channel" -> FieldResult(last.channel)
            [] PROP = "device" ->
                 IF last.device # Undefined
                    /\ last.device < Len(midiInputDevices)
                 THEN StringResult(midiInputDevices[last.device + 1])
                 ELSE Empty
            [] PROP = "pitchbend" ->
                 LET bend == lastOfType["pitchBend"]
                 IN  IF bend # NoEvent /\ bend.value # Undefined
                     THEN NumberResult(bend.value)
                     ELSE Empty
            [] PROP = "aftertouch" ->
                 IF last.type \in {"noteOn", "noteOff"}
                 THEN LET touch == lastOfType["aftertouch"]
                      IN  IF touch = NoEvent \/ touch.pitch # last.pitch
                          THEN Empty
                          ELSE FieldResult(touch.value)
                 ELSE FieldResult(last.value)
            [] PROP = "time" -> FieldResult(last.time)
            [] OTHER -> UndefinedResult

\* the block "is note [note] on?"
noteOn(note) == Includes(notesOn, note)

\* the block "velocity of note [note]": Undefined when it returns nothing
noteVelocity(note) ==
    LET found == {i \in 1..Len(noteVelocities) : noteVelocities[i][1] = note}
        velocityItem ==
            IF found = {}
            THEN <<Undefined, Undefined>>
            ELSE noteVelocities[CHOOSE i \in found : \A j \in found : i <= j]
    IN  IF Includes(notesOn, note) /\ velocityItem[2] # Undefined
        THEN velocityItem[2]
        ELSE Undefined

\* lastNote with the two categories exchanged
lastNoteExchanged(pressedReleased) ==
    IF pressedReleased = "pressed" THEN lastNoteReleased ELSE lastNotePressed

\* the block "last note [pressedReleased]"
lastNote(pressedReleased) ==
    IF pressedReleased = "pressed" THEN lastNotePressed ELSE lastNoteReleased

\* references to arrays: the block activeNotes returns the array notesOn itself
NoRef == "undefined"
NotesOnRef == "notesOn"

\* the contents of the array a reference denotes
Deref(ref) == IF ref = NotesOnRef THEN notesOn ELSE <<>>

\* the block "all active notes"; the caller keeps what it returns
activeNotes ==
    /\ activeNotesRef' = NotesOnRef
    /\ atCall' = notesOn
    /\ UNCHANGED returned
    /\ UNCHANGED <<backendVars, trackerVars, startedHats, threadVars, applied>>

\* a call of a reporter block by the runtime, which keeps what it returns
Report(value) ==
    /\ returned' = value
    /\ UNCHANGED <<backendVars, trackerVars, startedHats, threadVars,
                   activeNotesRef, atCall, applied>>

\* a call of lastEventProp that also stores the event it resolved on the
\* thread
callLastEventPropBinding(PROP, util) ==
    /\ returned' = lastEventProp(PROP, util)
    /\ threadMidi' =
           [threadMidi EXCEPT ![util] = IF threadMidi[util] # NoEvent
                                        THEN threadMidi[util]
                                        ELSE lastMidiEvent]
    /\ UNCHANGED <<backendVars, trackerVars, startedHats, activeNotesRef,
                   atCall, applied>>

callLastEventProp(PROP, util) == Report(lastEventProp(PROP, util))
callNoteOn(note) == Report(BooleanResult(noteOn(note)))
callNoteVelocity(note) == Report(FieldResult(noteVelocity(note)))
callLastNote(pressedReleased) == Report(NumberResult(lastNote(pressedReleased)))

---------------------------------------------------------------------------
(* Specifications *)

PressedReleased == {"pressed", "released"}

\* the state after construction, for the threads that run blocks; listed is
\* MidiBackend.inputs and pending the message a port has raised and the
\* handler has not yet seen
InitWith(threads, listed, pending) ==
    /\ inputs = listed
    /\ inbox = pending
    /\ emitted = CustomEvent("", NoEvent, <<>>)
    /\ thrown = NoError
    /\ midiInputDevices = <<>>
    /\ midiDeviceInfo = <<>>
    /\ status = "pending"
    /\ midiAccess = NoAccess
    /\ _init = NoPromise
    /\ attempts = <<>>
    /\ calls = <<>>
    /\ available = TRUE
    /\ present = <<>>
    /\ lastOfType = [t \in EventTypes |-> NoEvent]
    /\ lastMidiEvent = NoEvent
    /\ notesOn = <<>>
    /\ noteVelocities = <<>>
    /\ lastNotePressed = 0
    /\ lastNoteReleased = 0
    /\ lastNotes = [k \in {} |-> NoEvent]
    /\ lastNoteOnOff = NoEvent
    /\ lastCCs = [k \in {} |-> NoEvent]
    /\ startedHats = <<>>
    /\ threadMidi = [t \in threads |-> NoEvent]
    /\ activeNotesRef = NoRef
    /\ atCall = <<>>
    /\ returned = UndefinedResult
    /\ applied = <<>>

Init == InitWith(Threads, <<>>, <<>>)

\* the hat blocks, which bind the matching event to their thread
Hats ==
    \/ \E pr \in PressedReleased, t \in Threads : whenAnyNote(pr, t)
    \/ \E n \in Pitches, pr \in PressedReleased, t \in Threads : whenNote(n, pr, t)
    \/ \E t \in Threads : whenAnyCC(t)
    \/ \E n \in Controllers, t \in Threads : whenCC(n, t)

Blocks == Hats \/ activeNotes

\* complete messages only, as the Web MIDI transport delivers them
Next ==
    \/ refreshDevices(Ports)
    \/ \E device \in Range(Ports), data \in CompleteMessages :
          Len(applied) < MaxEvents /\ onInputEvent(device, data, Now)
    \/ Blocks

Spec == Init /\ [][Next]_vars

\* any message of one to three bytes, truncated and unknown ones included
NextRaw ==
    \/ refreshDevices(Ports)
    \/ \E device \in Range(Ports), data \in RawMessages :
          /\ rawMessageToMidi(data) # NoEvent => Len(applied) < MaxRawEvents
          /\ onInputEvent(device, data, Now)
    \/ \E pr \in PressedReleased, t \in Threads : whenAnyNote(pr, t)
    \/ \E t \in Threads : whenAnyCC(t)

SpecRaw == Init /\ [][NextRaw]_vars

\* one message of any status byte is pending at a listed port and the
\* handler decodes it
InitDecode == \E data \in WireMessages : InitWith(Threads, Ports, data)

NextDecode ==
    emitted.name = "" /\ onInputEvent(Ports[1], inbox, Now)

SpecDecode == InitDecode /\ [][NextDecode]_vars

\* the same pending message, handled by the variant in part_000
NextPart000 ==
    emitted.name = "" /\ onInputEventPart000(Ports[1], inbox, Now)

SpecPart000 == InitDecode /\ [][NextPart000]_vars

\* two threads run the hat blocks while notes, aftertouch and controllers
\* arrive and the port announces itself
InitQuery == InitWith(QueryThreads, <<>>, <<>>)

NextQuery ==
    \/ refreshDevices(Ports)
    \/ \E port \in Range(Ports) : onDeviceStateChange(port, Ports)
    \/ \E device \in Range(Ports), data \in QueryMessages :
          Len(applied) < MaxQueryEvents /\ onInputEvent(device, data, Now)
    \/ \E pr \in PressedReleased, t \in QueryThreads : whenAnyNote(pr, t)
    \/ \E n \in Pitches, pr \in PressedReleased, t \in QueryThreads :
          whenNote(n, pr, t)
    \/ \E t \in QueryThreads : whenAnyCC(t)
    \/ \E n \in Controllers, t \in QueryThreads : whenCC(n, t)

SpecQuery == InitQuery /\ [][NextQuery]_vars

\* notes, controllers and the channel-voice messages the tracker has no
\* handler for
NextOther ==
    \/ refreshDevices(Ports)
    \/ \E device \in Range(Ports), data \in OtherMessages :
          Len(applied) < MaxOtherEvents /\ onInputEvent(device, data, Now)

SpecOther == Init /\ [][NextOther]_vars

\* the reporter blocks are called between the messages, by a thread that a
\* hat may have bound
NextReport ==
    \/ refreshDevices(Ports)
    \/ \E device \in Range(Ports), data \in ReportMessages :
          Len(applied) < MaxReportEvents /\ onInputEvent(device, data, Now)
    \/ \E pr \in PressedReleased, t \in Threads : whenAnyNote(pr, t)
    \/ \E P \in Props, t \in Threads : callLastEventProp(P, t)
    \/ \E n \in Pitches : callNoteOn(n)
    \/ \E n \in Pitches : callNoteVelocity(n)
    \/ \E pr \in PressedReleased : callLastNote(pr)
    \/ activeNotes

SpecReport == Init /\ [][NextReport]_vars

\* the extension from construction on: initialize is called at load and
\* later with force, the requests are granted, denied or time out, ports
\* come and go and the listed ones deliver messages
InitBackend ==
    /\ inputs = <<>>
    /\ inbox = <<>>
    /\ emitted = CustomEvent("", NoEvent, <<>>)
    /\ thrown = NoError
    /\ midiInputDevices = <<>>
    /\ midiDeviceInfo = <<>>
    /\ status = "pending"
    /\ midiAccess = NoAccess
    /\ _init = NoPromise
    /\ attempts = <<>>
    /\ calls = <<>>
    /\ available \in BOOLEAN
    /\ present = <<"in0">>
    /\ lastOfType = [t \in EventTypes |-> NoEvent]
    /\ lastMidiEvent = NoEvent
    /\ notesOn = <<>>
    /\ noteVelocities = <<>>
    /\ lastNotePressed = 0
    /\ lastNoteReleased = 0
    /\ lastNotes = [k \in {} |-> NoEvent]
    /\ lastNoteOnOff = NoEvent
    /\ lastCCs = [k \in {} |-> NoEvent]
    /\ startedHats = <<>>
    /\ threadMidi = [t \in Threads |-> NoEvent]
    /\ activeNotesRef = NoRef
    /\ atCall = <<>>
    /\ returned = UndefinedResult
    /\ applied = <<>>

NextBackend ==
    \/ calls = <<>> /\ initialize(FALSE)
    \/ calls # <<>> /\ Len(calls) < MaxCalls /\ initialize(TRUE)
    \/ \E k \in 1..MaxCalls : requestGranted(k)
    \/ \E k \in 1..MaxCalls : requestDenied(k)
    \/ \E k \in 1..MaxCalls : timeoutFires(k)
    \/ \E id \in PortIds : connect(id)
    \/ \E id \in PortIds : disconnect(id)
    \/ onAccessStateChange
    \/ \E port \in Range(inputs) :
          onDeviceStateChange(port, AccessInputs(midiAccess))
    \/ \E device \in Range(inputs), data \in BackendMessages :
          /\ device.id \in Range(present)
          /\ Len(applied) < MaxBackendEvents
          /\ onInputEvent(device, data, Now)

SpecBackend == InitBackend /\ [][NextBackend]_vars

\* initialize alone under any caller: plain and forced calls, and each
\* attempt's request and timer in every order
NextAccess ==
    \/ \E force \in BOOLEAN : Len(calls) < MaxCalls /\ initialize(force)
    \/ \E k \in 1..MaxCalls : requestGranted(k)
    \/ \E k \in 1..MaxCalls : requestDenied(k)
    \/ \E k \in 1..MaxCalls : timeoutFires(k)

SpecAccess == InitBackend /\ [][NextAccess]_vars

\* setTimeout runs its callback: an armed timer fires
SpecAccessFair ==
    SpecAccess /\ \A k \in 1..MaxCalls : WF_vars(timeoutFires(k))

---------------------------------------------------------------------------
(* Properties *)

Last(seq) == seq[Len(seq)]

\* a note-on with a velocity above zero
IsPress(e) == e.type = "noteOn" /\ e.velocity > 0
\* a note-off, or a note-on with velocity zero
IsRelease(e) == e.type = "noteOff" \/ (e.type = "noteOn" /\ e.velocity = 0)

\* the step applied one more decoded event
AppliedOne == Len(applied') = Len(applied) + 1

Remove(seq, x) == SelectSeq(seq, LAMBDA y : y # x)

RECURSIVE HeldAfter(_)
\* the pitches held after a sequence of events, first pressed first: a press
\* of a held pitch keeps its place, a release removes the pitch
HeldAfter(events) ==
    IF events = <<>>
    THEN <<>>
    ELSE LET before == HeldAfter(SubSeq(events, 1, Len(events) - 1))
             e == Last(events)
         IN  IF IsPress(e)
             THEN IF Includes(before, e.pitch)
                  THEN before
                  ELSE Append(before, e.pitch)
             ELSE IF IsRelease(e)
             THEN Remove(before, e.pitch)
             ELSE before

\* C1: a release (note-off, or note-on with velocity 0) of a pitch that is not
\* active leaves the arrays notesOn and noteVelocities as they were.
C1_ReleaseOfInactiveChangesNothing ==
    [][(/\ AppliedOne
        /\ IsRelease(Last(applied'))
        /\ ~noteOn(Last(applied').pitch))
       => (notesOn' = notesOn /\ noteVelocities' = noteVelocities)]_vars

\* C2: right after a note-on of pitch p with velocity v > 0 is applied, also
\* when p was held already, "is note p on?" is true, "velocity of note p" is
\* v and "last note pressed" is p.
C2_PressIsVisible ==
    (applied # <<>> /\ IsPress(Last(applied)))
    => LET e == Last(applied)
       IN  /\ noteOn(e.pitch)
           /\ noteVelocity(e.pitch) = e.velocity
           /\ lastNote("pressed") = e.pitch

\* C3: no pitch occurs twice in notesOn.
C3_NoDuplicateActiveNote ==
    \A i, j \in 1..Len(notesOn) : notesOn[i] = notesOn[j] => i = j

\* C4: the pitches with an entry in noteVelocities are exactly the pitches in
\* notesOn.
C4_VelocityEntriesAreActiveNotes ==
    {noteVelocities[i][1] : i \in 1..Len(noteVelocities)} = Range(notesOn)

\* C4 witness: notes were pressed and one was released while another is held
C4_Witness ==
    /\ Len(applied) >= 3
    /\ IsRelease(Last(applied))
    /\ notesOn # <<>>
    /\ C4_VelocityEntriesAreActiveNotes

\* C5: right after a release of pitch p is applied, "is note p on?" is false,
\* "velocity of note p" returns nothing and "last note released" is p.
C5_ReleaseIsVisible ==
    (applied # <<>> /\ IsRelease(Last(applied)))
    => LET e == Last(applied)
       IN  /\ ~noteOn(e.pitch)
           /\ noteVelocity(e.pitch) = Undefined
           /\ lastNote("released") = e.pitch

\* C6: right after a note-on of pitch p with velocity 0 is applied, the note
\* hats answer as after a note-off of p: "released" matches, "pressed" does
\* not.
C6_ZeroVelocityMatchesAsRelease ==
    (/\ applied # <<>>
     /\ Last(applied).type = "noteOn"
     /\ Last(applied).velocity = 0)
    => LET p == Last(applied).pitch
       IN  /\ whenAnyNoteResult("released")
           /\ whenNoteResult(p, "released")
           /\ ~whenAnyNoteResult("pressed")
           /\ ~whenNoteResult(p, "pressed")

\* C7: the array activeNotes() returns holds exactly the pitches that are
\* held after the events applied so far, first pressed first.
C7_ActiveNotesInPressOrder ==
    Deref(NotesOnRef) = HeldAfter(applied)

\* C8: what an activeNotes() call returned keeps the contents it had when it
\* was returned, whatever events are applied afterwards.
C8_SnapshotIsACopy ==
    activeNotesRef # NoRef => Deref(activeNotesRef) = atCall

\* the commands of the message table
TableCommands == {eventMapping[t].command : t \in EventTypes}

\* the status byte has no entry in the message table: a system status byte
\* (0xF0 and above) counts as a whole, a channel status byte by its high
\* nibble
NoTableEntry(statusByte) ==
    IF statusByte >= 240
    THEN statusByte \notin TableCommands
    ELSE (statusByte - (statusByte % 16)) \notin TableCommands

\* C9: a message whose status byte has no entry in the message table is
\* dispatched as 'midi:unhandled' and changes neither the tracked state nor
\* any thread's bound event.
C9_UnknownStatusIsUnhandled ==
    [][\A device \in Range(Ports),
          data \in {d \in RawMessages : NoTableEntry(d[1])} :
          onInputEvent(device, data, Now)
          => /\ emitted'.name = "midi:unhandled"
             /\ emitted'.data = data
             /\ UNCHANGED <<trackerVars, threadVars>>]_vars

\* C9 witness: an unknown message was delivered while a note is held, a
\* controller event is cached and a thread has a bound event
C9_Witness ==
    /\ emitted.name = "midi:unhandled"
    /\ NoTableEntry(emitted.data[1])
    /\ notesOn # <<>>
    /\ lastOfType["cc"] # NoEvent
    /\ lastMidiEvent # NoEvent
    /\ \E t \in Threads : threadMidi[t] # NoEvent

\* the number of data bytes the type of a command takes
DataBytes(type) ==
    LET spec == eventMapping[type]
    IN  IF spec.highResParam # NoParam
        THEN 2
        ELSE (IF spec.param1 # NoParam THEN 1 ELSE 0)
             + (IF spec.param2 # NoParam THEN 1 ELSE 0)

\* a known command with fewer data bytes than its type takes
Truncated(data) ==
    /\ ~NoTableEntry(data[1])
    /\ LET type == commandLookup(IF data[1] >= 240
                                 THEN data[1]
                                 ELSE data[1] - (data[1] % 16))
       IN  Len(data) - 1 < DataBytes(type)

\* C10: a message with a known command and too few data bytes is reported as
\* a decode failure and is not applied: the tracked state does not change.
C10_TruncatedIsNotApplied ==
    [][\A device \in Range(Ports), data \in RawMessages :
          (Truncated(data) /\ onInputEvent(device, data, Now))
          => /\ emitted'.name = "midi:unhandled"
             /\ UNCHANGED trackerVars]_vars

---------------------------------------------------------------------------
(* Properties of the decoder, under SpecDecode and SpecPart000 *)

\* the handler has seen the pending message
Handled == emitted.name # ""

\* C11: handling a message of one to three bytes raises no error, and the
\* message is either surfaced as unhandled or decoded and applied to the
\* tracker.
C11_HandlingNeverRaises ==
    Handled
    => /\ thrown = NoError
       /\ \/ emitted.name = "midi:unhandled"
          \/ /\ emitted.name = "midi"
             /\ applied # <<>>
             /\ Last(applied) = emitted.midi

\* the system status bytes of the message table
SystemTableCommands == {c \in TableCommands : c >= 240}

\* C12: a system status byte of the message table is decoded with the whole
\* byte as its command: the event has the type of that table entry and no
\* channel.
C12_SystemStatusDecodes ==
    (Handled /\ inbox[1] \in SystemTableCommands)
    => /\ emitted.name = "midi"
       /\ eventMapping[emitted.midi.type].command = inbox[1]
       /\ emitted.midi.channel = Undefined

\* the message is a pitch bend or a song position with both data bytes
IsHighRes(data) ==
    /\ Len(data) = 3
    /\ \/ data[1] - (data[1] % 16) = eventMapping["pitchBend"].command
       \/ data[1] = eventMapping["songPosition"].command

\* C13: the value of a decoded pitch bend or song position with data bytes
\* b1, b2 is (b2 << 7) + b1.
C13_HighResValue ==
    (Handled /\ IsHighRes(inbox))
    => /\ emitted.name = "midi"
       /\ emitted.midi.value = (inbox[3] * 128) + inbox[2]

\* the 32-bit integer a bitwise operator makes of its operand: 0 of undefined
ToInt32(v) == IF v = Undefined THEN 0 ELSE v

\* the data bytes the semantic fields of an event encode: value & 0x7F and
\* value >> 7 of a high-resolution value, else the fields of param1 and
\* param2
Reencode(event) ==
    LET spec == eventMapping[event.type]
    IN  IF spec.highResParam # NoParam
        THEN <<ToInt32(event[spec.highResParam]) % 128,
               ToInt32(event[spec.highResParam]) \div 128>>
        ELSE (IF spec.param1 # NoParam THEN <<event[spec.param1]>> ELSE <<>>)
             \o (IF spec.param2 # NoParam THEN <<event[spec.param2]>> ELSE <<>>)

\* C14: for a three-byte message with a known command, encoding the semantic
\* fields of the decoded event again gives the data bytes received.
C14_RoundTrip ==
    (Handled /\ Len(inbox) = 3 /\ ~NoTableEntry(inbox[1]))
    => /\ emitted.name = "midi"
       /\ Reencode(emitted.midi)
              = SubSeq(inbox, 2, 1 + DataBytes(emitted.midi.type))

\* the data byte at 0-based place i of a message, Undefined when absent
ByteAt(data, i) == IF Len(data) >= i + 1 THEN data[i + 1] ELSE Undefined

\* C15: a channel-voice status byte s in 0x80..0xEF decodes to the type of
\* the table entry for s & 0xF0 with channel s & 0x0F, the data bytes as
\* received and each present data byte copied to the field param1 / param2
\* names; a note-on with velocity 0 stays a note-on.
C15_ChannelVoiceDecodes ==
    (Handled /\ inbox[1] >= 128 /\ inbox[1] <= 239)
    => LET s == inbox[1]
           e == emitted.midi
       IN  /\ emitted.name = "midi"
           /\ e.type \in EventTypes
           /\ eventMapping[e.type].command = s - (s % 16)
           /\ e.channel = s % 16
           /\ e.value1 = ByteAt(inbox, 1)
           /\ e.value2 = ByteAt(inbox, 2)
           /\ LET spec == eventMapping[e.type]
              IN  /\ (spec.param1 # NoParam /\ Len(inbox) >= 2)
                     => e[spec.param1] = inbox[2]
                  /\ (spec.param2 # NoParam /\ Len(inbox) >= 3)
                     => e[spec.param2] = inbox[3]
           /\ (s - (s % 16) = NoteOnStatus) => e.type = "noteOn"

\* C15 witness: a note-on on channel 1 with velocity 0 was decoded
C15_Witness ==
    /\ Handled
    /\ inbox = <<145, 64, 0>>
    /\ emitted.midi.type = "noteOn"
    /\ emitted.midi.channel = 1
    /\ emitted.midi.pitch = 64
    /\ emitted.midi.velocity = 0

---------------------------------------------------------------------------
(* Properties of the last-event caches and the hat blocks, under SpecQuery *)

\* the last event of type T in a sequence of events, NoEvent when there is
\* none
LastOfTypeIn(seq, T) ==
    LET at == {i \in 1..Len(seq) : seq[i].type = T}
    IN  IF at = {}
        THEN NoEvent
        ELSE seq[CHOOSE i \in at : \A j \in at : j <= i]

\* C20: lastOfType[T] is the most recently applied event of type T, nothing
\* for a type never applied, and lastMidiEvent is the most recently applied
\* event of any type.
C20_CachesHoldLastApplied ==
    /\ lastMidiEvent = (IF applied = <<>> THEN NoEvent ELSE Last(applied))
    /\ \A T \in EventTypes : lastOfType[T] = LastOfTypeIn(applied, T)

\* C20 witness: a type was applied, then another, then the first again
C20_Witness ==
    /\ Len(applied) = 3
    /\ applied[1].type = applied[3].type
    /\ applied[2].type # applied[1].type
    /\ lastOfType[applied[1].type] = applied[3]
    /\ lastOfType[applied[2].type] = applied[2]

\* the most recently applied controller event
LastCC == LastOfTypeIn(applied, "cc")

\* C16: whenCC(n) returns true exactly when the most recently applied
\* controller event has controller number n, and then binds that event to
\* the calling thread; otherwise it returns false and binds nothing.
C16_WhenCCMatchesLastCC ==
    /\ [](\A n \in Controllers :
             whenCCResult(n) <=> (LastCC # NoEvent /\ LastCC.cc = n))
    /\ [][\A n \in Controllers, t \in QueryThreads :
             whenCC(n, t)
             => IF LastCC # NoEvent /\ LastCC.cc = n
                THEN threadMidi'[t] = LastCC
                ELSE threadMidi'[t] = threadMidi[t]]_vars

\* C16 witness: controller 7 was applied and later controller 8, whenCC(8)
\* bound the later event to t1 and whenCC(7) now returns false
C16_Witness ==
    /\ \E i, j \in 1..Len(applied) :
          /\ i < j
          /\ applied[i].type = "cc" /\ applied[i].cc = 7
          /\ applied[j].type = "cc" /\ applied[j].cc = 8
          /\ LastCC = applied[j]
    /\ threadMidi["t1"] = LastCC
    /\ whenCCResult(8)
    /\ ~whenCCResult(7)

\* what a hat call by thread t that returned result may change
HatFrame(t, result) ==
    /\ UNCHANGED <<backendVars, trackerVars, startedHats, readerVars, applied>>
    /\ \A u \in QueryThreads \ {t} : threadMidi'[u] = threadMidi[u]
    /\ ~result => threadMidi'[t] = threadMidi[t]

\* C17: a hat that returns false leaves every binding as it was, and a hat
\* that returns true changes the binding of its own thread only; the tracker
\* and the bindings of other threads are unchanged either way.
C17_HatChangesOnlyOwnBinding ==
    [][/\ \A pr \in PressedReleased, t \in QueryThreads :
             whenAnyNote(pr, t) => HatFrame(t, whenAnyNoteResult(pr))
       /\ \A n \in Pitches, pr \in PressedReleased, t \in QueryThreads :
             whenNote(n, pr, t) => HatFrame(t, whenNoteResult(n, pr))
       /\ \A t \in QueryThreads :
             whenAnyCC(t) => HatFrame(t, whenAnyCCResult)
       /\ \A n \in Controllers, t \in QueryThreads :
             whenCC(n, t) => HatFrame(t, whenCCResult(n))
       /\ threadMidi' # threadMidi
          => /\ UNCHANGED <<backendVars, trackerVars, startedHats,
                            readerVars, applied>>
             /\ \E t \in QueryThreads :
                   \A u \in QueryThreads \ {t} : threadMidi'[u] = threadMidi[u]
      ]_vars

\* C17 witness: the two threads are bound to different events, and a hat
\* asked now for the event of t1 returns false
C17_Witness ==
    /\ threadMidi["t1"] # NoEvent
    /\ threadMidi["t2"] # NoEvent
    /\ threadMidi["t1"] # threadMidi["t2"]
    /\ threadMidi["t1"].type = "cc"
    /\ ~whenCCResult(threadMidi["t1"].cc)

\* the event lastEventProp resolves a thread's reading against
Resolved(t) == IF threadMidi[t] # NoEvent THEN threadMidi[t] ELSE lastMidiEvent

\* the thread has a binding and the step keeps it
BindingKept(t) == threadMidi[t] # NoEvent /\ threadMidi'[t] = threadMidi[t]

\* C18: every property is read from the event bound to the thread, so a
\* thread whose binding is kept reads the same value of every property after
\* a later event has been applied.
C18_BoundThreadKeepsEveryReading ==
    [][\A t \in QueryThreads, P \in Props :
          (AppliedOne /\ BindingKept(t))
          => lastEventProp(P, t)' = lastEventProp(P, t)]_vars

\* the properties that are fields of the resolved event
FieldProps == {"type", "pitch", "velocity", "cc", "value", "channel", "time"}

\* C18, amended: type, channel and time are read from the event bound to
\* the thread, or from the last event overall when the thread has none; a
\* thread whose binding is kept reads the same type, pitch, velocity, cc,
\* value, channel and time after any step, and the same device while the
\* device list is not regenerated.  (aftertouch and pitchbend are read from
\* the last aftertouch and pitch-bend event overall.)
C18_BoundThreadKeepsEventFields ==
    /\ [](\A t \in QueryThreads :
             IF Resolved(t) = NoEvent
             THEN \A P \in Props : lastEventProp(P, t) = Empty
             ELSE /\ lastEventProp("type", t) = StringResult(Resolved(t).type)
                  /\ lastEventProp("channel", t) = FieldResult(Resolved(t).channel)
                  /\ lastEventProp("time", t) = FieldResult(Resolved(t).time))
    /\ [][\A t \in QueryThreads :
             BindingKept(t)
             => /\ \A P \in FieldProps :
                      lastEventProp(P, t)' = lastEventProp(P, t)
                /\ midiInputDevices' = midiInputDevices
                   => lastEventProp("device", t)' = lastEventProp("device", t)
         ]_vars

\* C18 witness: t1 is bound to a note, t2 to nothing, a later event of
\* another type and time has been applied, and each reads its own event
C18_Witness ==
    /\ threadMidi["t1"] # NoEvent
    /\ threadMidi["t2"] = NoEvent
    /\ threadMidi["t1"].type = "noteOn"
    /\ lastMidiEvent.type = "cc"
    /\ lastMidiEvent.time > threadMidi["t1"].time
    /\ lastEventProp("type", "t1") = StringResult("noteOn")
    /\ lastEventProp("pitch", "t1") = NumberResult(60)
    /\ lastEventProp("time", "t1") = NumberResult(threadMidi["t1"].time)
    /\ lastEventProp("type", "t2") = StringResult("cc")
    /\ lastEventProp("device", "t1") = StringResult(DeviceLabel(Ports[1]))

\* the event types a property applies to
Applies(P, type) ==
    CASE P = "pitch" -> type \in {"noteOn", "noteOff", "aftertouch"}
      [] P = "velocity" -> type \in {"noteOn", "noteOff"}
      [] P = "cc" -> type = "cc"
      [] P = "value" -> type = "cc"
      [] P = "aftertouch" -> type \in {"noteOn", "noteOff", "aftertouch"}
      [] OTHER -> TRUE

\* C19: a property that does not apply to the type of the resolved event
\* reads as empty: the empty string or undefined, never a value.
C19_InapplicablePropertyIsEmpty ==
    \A t \in QueryThreads, P \in Props :
        (Resolved(t) # NoEvent /\ ~Applies(P, Resolved(t).type))
        => lastEventProp(P, t) \in {Empty, UndefinedResult}

---------------------------------------------------------------------------
(* Properties of the note tracker and the note hats, under Spec *)

\* the pitch of the last event of a sequence that passes Test, 0 when none does
LastPitchOf(seq, Test(_)) ==
    LET at == {i \in 1..Len(seq) : Test(seq[i])}
    IN  IF at = {}
        THEN 0
        ELSE seq[CHOOSE i \in at : \A j \in at : j <= i].pitch

\* C21: lastNote(pressed) is 0 until the first press and then the pitch of
\* the most recent press, lastNote(released) is 0 until the first release and
\* then the pitch of the most recent release; neither kind of event changes
\* the other's note.
C21_LastNoteIsSticky ==
    /\ lastNote("pressed") = LastPitchOf(applied, IsPress)
    /\ lastNote("released") = LastPitchOf(applied, IsRelease)

\* C21 witness: pitch 60 was pressed, then pitch 61 was pressed and released,
\* and a press of 60 came first in the history
C21_Witness ==
    /\ Len(applied) = 3
    /\ IsPress(applied[1]) /\ applied[1].pitch = 60
    /\ IsPress(applied[2]) /\ applied[2].pitch = 61
    /\ IsRelease(applied[3]) /\ applied[3].pitch = 60
    /\ lastNote("pressed") = 61
    /\ lastNote("released") = 60

\* the step applied an event that is no note and no controller change
AppliedOther ==
    AppliedOne /\ Last(applied').type \notin {"noteOn", "noteOff", "cc"}

\* C22: applying an event that is neither a note nor a controller change
\* starts no hat and changes only lastMidiEvent and the entry of lastOfType
\* for its type.
C22_OtherEventChangesOnlyCaches ==
    [][AppliedOther
       => /\ startedHats' = <<>>
          /\ UNCHANGED <<notesOn, noteVelocities, lastNotePressed,
                         lastNoteReleased, lastNotes, lastNoteOnOff, lastCCs,
                         threadVars>>
          /\ lastMidiEvent' = Last(applied')
          /\ lastOfType' =
                 [lastOfType EXCEPT ![Last(applied').type] = Last(applied')]
      ]_vars

\* C22 witness: with pitch 60 held and a controller seen, a program change
\* was applied
C22_Witness ==
    /\ Len(applied) = 3
    /\ notesOn = <<60>>
    /\ lastOfType["cc"] # NoEvent
    /\ Last(applied).type = "programChange"
    /\ lastOfType["programChange"] = Last(applied)
    /\ lastNoteOnOff.type = "noteOn"
    /\ startedHats = <<>>

\* the last event of a sequence that passes Test, NoEvent when none does
LastWhere(seq, Test(_)) ==
    LET at == {i \in 1..Len(seq) : Test(seq[i])}
    IN  IF at = {}
        THEN NoEvent
        ELSE seq[CHOOSE i \in at : \A j \in at : j <= i]

IsNote(e) == e.type \in {"noteOn", "noteOff"}

\* the most recently applied note event, press or release, of any pitch
LastNoteEvent == LastWhere(applied, IsNote)

\* no note-on with velocity 0 has been applied
NoZeroVelocityNoteOn ==
    \A i \in 1..Len(applied) :
        ~(applied[i].type = "noteOn" /\ applied[i].velocity = 0)

\* the most recent note event is a press (kind "pressed") or a release
LastNoteIs(kind) ==
    /\ LastNoteEvent # NoEvent
    /\ IF kind = "pressed" THEN IsPress(LastNoteEvent) ELSE IsRelease(LastNoteEvent)

\* C25: when no note-on with velocity 0 has been applied, whenAnyNote(kind)
\* returns true exactly when the most recent note event is of that kind and
\* whenNote(p, kind) exactly when it is of that kind and has pitch p; on true
\* the calling thread is bound to that note event, also when other events
\* came after it.
C25_NoteHatsMatchLastNoteEvent ==
    /\ [](NoZeroVelocityNoteOn
          => /\ \A kind \in PressedReleased :
                   whenAnyNoteResult(kind) <=> LastNoteIs(kind)
             /\ \A p \in Pitches, kind \in PressedReleased :
                   whenNoteResult(p, kind)
                   <=> (LastNoteIs(kind) /\ LastNoteEvent.pitch = p))
    /\ [][NoZeroVelocityNoteOn
          => /\ \A kind \in PressedReleased, t \in Threads :
                   whenAnyNote(kind, t)
                   => IF LastNoteIs(kind)
                      THEN threadMidi'[t] = LastNoteEvent
                      ELSE threadMidi'[t] = threadMidi[t]
             /\ \A p \in Pitches, kind \in PressedReleased, t \in Threads :
                   whenNote(p, kind, t)
                   => IF LastNoteIs(kind) /\ LastNoteEvent.pitch = p
                      THEN threadMidi'[t] = LastNoteEvent
                      ELSE threadMidi'[t] = threadMidi[t]]_vars

\* C25 witness: pitch 60 was pressed and released, a controller change came
\* after, and the thread is bound to the release
C25_Witness ==
    /\ NoZeroVelocityNoteOn
    /\ Len(applied) = 3
    /\ IsPress(applied[1]) /\ applied[1].pitch = 60
    /\ applied[2].type = "noteOff" /\ applied[2].pitch = 60
    /\ applied[3].type = "cc"
    /\ threadMidi["t1"] = applied[2]
    /\ whenNoteResult(60, "released")
    /\ ~whenNoteResult(61, "released")
    /\ ~whenAnyNoteResult("pressed")

---------------------------------------------------------------------------
(* Properties of the reporter blocks, under SpecReport *)

\* nothing but what the caller holds changes
ReadOnly ==
    UNCHANGED <<backendVars, trackerVars, startedHats, threadVars, applied>>

\* C24: a call of noteOn, noteVelocity, activeNotes, lastNote or
\* lastEventProp changes neither the tracker nor any thread's binding.
C24_ReportersChangeNothing ==
    [][/\ (returned' # returned \/ activeNotesRef' # activeNotesRef
           \/ atCall' # atCall) => ReadOnly
       /\ \A P \in Props, t \in Threads : callLastEventProp(P, t) => ReadOnly
       /\ \A n \in Pitches : callNoteOn(n) => ReadOnly
       /\ \A n \in Pitches : callNoteVelocity(n) => ReadOnly
       /\ \A pr \in PressedReleased : callLastNote(pr) => ReadOnly
       /\ activeNotes => ReadOnly]_vars

\* C24 witness: with pitch 60 held and no thread bound, a reporter returned
\* the velocity 100 and activeNotes returned the array
C24_Witness ==
    /\ notesOn = <<60>>
    /\ threadMidi["t1"] = NoEvent
    /\ lastMidiEvent # NoEvent
    /\ returned = NumberResult(100)
    /\ activeNotesRef = NotesOnRef


\* the outcome a call's promise resolves to: "pending" until then
Outcome(call) ==
    IF call.promise = NoPromise THEN "false"
    ELSE attempts[call.promise].result

Unforced == \A i \in 1..Len(calls) : ~calls[i].force

\* C26: as long as no call of initialize passes force, MIDI access is
\* requested at most once, whether the calls come while the attempt is
\* pending or after it settled, and every call returns the promise of that
\* one attempt, hence resolves to its outcome
C26_UnforcedCallsShareOneAttempt ==
    Unforced =>
        /\ Len(attempts) <= 1
        /\ \A i \in 1..Len(calls) :
              /\ calls[i].promise = calls[1].promise
              /\ Outcome(calls[i]) = Outcome(calls[1])
              /\ Len(attempts) = 1 => calls[i].promise = 1

\* two plain calls, the second one after the attempt settled
C26_Witness ==
    /\ Unforced
    /\ Len(calls) = 2
    /\ calls[2].found \in {"connected", "error"}
    /\ Len(attempts) = 1
    /\ Outcome(calls[2]) = attempts[1].result

\* the step is a call of initialize that passes force
ForcedCall == Len(calls') > Len(calls) /\ calls'[Len(calls')].force

\* C28: once status is 'connected' it stays 'connected' until initialize is
\* called with force: no completion of an earlier attempt, its timeout
\* included, moves status to 'error' or 'initializing'
C28_ConnectedUntilForced ==
    [][isConnected /\ ~ForcedCall => isConnected']_vars

\* attempt k has settled in this step
Settles(k) ==
    /\ k \in 1..Len(attempts)
    /\ attempts[k].result = "pending"
    /\ attempts'[k].result # "pending"

\* C27 (termination): every attempt that waits for its request settles,
\* given that its timer fires, also when the request never resolves
C27_AttemptSettles ==
    \A k \in 1..MaxCalls :
        (k \in 1..Len(attempts) /\ attempts[k].result = "pending")
            ~> (k \in 1..Len(attempts) /\ attempts[k].result # "pending")

\* C27 (the settling step): status leaves 'initializing' for 'connected' (the
\* request won) or 'error', and the 'statechange' notification of the step
\* comes with that final status; a grant that comes after the attempt
\* settled, by its timeout or otherwise, changes neither status nor
\* midiAccess and notifies nobody
C27_SettlesOnceWithFinalStatus ==
    [][\A k \in 1..Len(attempts) :
          /\ Settles(k) =>
                /\ status' = IF attempts'[k].result = "true"
                              THEN "connected" ELSE "error"
                /\ attempts'[k].result = "true" <=>
                      attempts'[k].request = "granted"
                /\ emitted' = CustomEvent("statechange", NoEvent, <<>>)
          /\ (/\ attempts[k].result # "pending"
              /\ attempts[k].request = "pending"
              /\ attempts'[k].request = "granted") =>
                UNCHANGED <<status, midiAccess, emitted, inputs,
                            midiInputDevices, midiDeviceInfo>>
          /\ status' # status /\ status' \in {"connected", "error"} =>
                \E j \in 1..Len(attempts) : Settles(j)]_vars

\* C27: an attempt settles by its timeout and never changes after that,
\* whatever becomes of its request
C27_SettledAttemptStaysSettled ==
    [](\A k \in 1..Len(attempts) :
          attempts[k].timer = "fired" /\ attempts[k].request # "denied" =>
              attempts[k].result = "false")

\* C27 as a whole
C27_EveryAttemptSettles ==
    /\ C27_AttemptSettles
    /\ C27_SettlesOnceWithFinalStatus
    /\ C27_SettledAttemptStaysSettled

\* an attempt timed out, status is 'error', and its request was granted
\* afterwards
C27_Witness ==
    /\ Len(attempts) = 1
    /\ attempts[1] = [request |-> "granted", timer |-> "fired",
                      result |-> "false"]
    /\ status = "error"
    /\ midiAccess = NoAccess
    /\ emitted.name = "statechange"

\* no id is listed twice
UniqueIds ==
    \A i, j \in 1..Len(inputs) : inputs[i].id = inputs[j].id => i = j

\* the list only grows at its end: every listed device keeps its index
AppendOnly ==
    /\ Len(inputs') >= Len(inputs)
    /\ \A i \in 1..Len(inputs) : inputs'[i] = inputs[i]

\* the device index of every applied event is the index of a listed device
EventDevicesListed ==
    \A n \in 1..Len(applied) : applied[n].device + 1 \in 1..Len(inputs)

\* C29: backend.inputs is append-only and free of duplicate ids through
\* refreshes, connects, disconnects and forced re-initializations, so a
\* device keeps its index and the device index stored on an event denotes
\* the same listed device for ever
C29_InputsAppendOnlyNoDuplicates ==
    /\ [](UniqueIds /\ EventDevicesListed)
    /\ [][AppendOnly]_vars

\* two devices listed, the first one unplugged, access granted anew after a
\* forced call, and an event of the second device applied
C29_Witness ==
    /\ Len(inputs) = 2
    /\ inputs[1].id \notin Range(present)
    /\ Len(attempts) = 2 /\ calls[2].force
    /\ attempts[2].result = "true"
    /\ midiAccess = 2
    /\ Len(applied) >= 1
    /\ applied[Len(applied)].device = 1

\* both rosters list the devices of backend.inputs, one entry each, in order
RosterOf(list) ==
    /\ midiInputDevices = [i \in 1..Len(list) |-> DeviceLabel(list[i])]
    /\ midiDeviceInfo = [i \in 1..Len(list) |-> <<list[i].id, list[i].name>>]

\* C30: after every handled device event (initialization settled,
\* 'statechange' of the access object, 'statechange' of a port) the rosters
\* midiInputDevices and midiDeviceInfo have one entry per device of
\* backend.inputs, in the same order; hence the device index of every
\* applied event has a roster entry
C30_RosterFollowsInputs ==
    /\ RosterOf(inputs)
    /\ \A n \in 1..Len(applied) :
          /\ applied[n].device + 1 \in 1..Len(midiInputDevices)
          /\ applied[n].device + 1 \in 1..Len(midiDeviceInfo)

\* the step delivers a raw message that decodes
Delivery == emitted'.name = "midi" /\ emitted' # emitted

\* C23: with several devices delivering, the decoded events are applied one
\* at a time in the order of arrival: the step that takes a raw message
\* decodes it, stamps it with its arrival and its device, updates the
\* tracker state with it and signals its hats, all before the next message
\* is taken; no other step touches the tracker state
C23_OneEventAtATimeInArrivalOrder ==
    /\ [](\A n \in 1..Len(applied) : applied[n].time = n)
    /\ [][/\ Delivery =>
               LET event == emitted'.midi
               IN  /\ applied' = Append(applied, event)
                   /\ event = [rawMessageToMidi(inbox') EXCEPT
                                  !.time = Len(applied) + 1,
                                  !.device = event.device]
                   /\ event.device + 1 \in 1..Len(inputs)
                   /\ lastMidiEvent' = event
                   /\ lastOfType' = [lastOfType EXCEPT ![event.type] = event]
                   /\ event.type \in {"noteOn", "noteOff"} =>
                         /\ lastNoteOnOff' = event
                         /\ lastNotes'[event.pitch] = event
                   /\ IsPress(event) =>
                         /\ lastNotePressed' = event.pitch
                         /\ notesOn' = Append(notesOn, event.pitch)
                         /\ startedHats' =
                               <<StartHats("midi_whenAnyNote", "pressed"),
                                 StartHats("midi_whenNote", "pressed")>>
          /\ ~Delivery => UNCHANGED <<trackerVars, startedHats, applied>>]_vars

\* two devices have delivered one after the other
C23_Witness ==
    /\ Len(applied) = 2
    /\ applied[1].device # applied[2].device
    /\ lastMidiEvent = applied[2]
    /\ notesOn = <<applied[1].pitch, applied[2].pitch>>
=============================================================================
